---- MODULE Spec2Model ----
(***************************************************************************)
(* A model of app/main.py of chat-with-wiki: the HTTP API over one vector  *)
(* store collection (add / get / delete / search), the query router        *)
(* (check_query_relevance, search_documents, summarize_search_results)     *)
(* and the startup ingestion with its paragraph chunker.                   *)
(*                                                                         *)
(* The handlers are `async def` but never await anything except each       *)
(* other, and the store and LLM clients are synchronous, so a handler runs *)
(* to completion before the next request is served: one action models one  *)
(* whole handling.  What the external systems answer (the LLM's reply or   *)
(* failure, the store's ranking or failure, the clock) is chosen by the    *)
(* environment with \E and kept in `env`.  The calls a handling makes are   *)
(* recorded, in order, in `calls`.                                         *)
(***************************************************************************)
EXTENDS Integers, Sequences, FiniteSets, TLC

VARIABLES
    collection,    \* the store's collection "wiki_documents": id -> [content, metadata]
    request,       \* the request handled last
    response,      \* the HTTP response to it
    calls,         \* the calls that handling made, in order
    env,           \* what the outside answered during that handling: the LLM's
                   \* outcomes, the store's outcome, the clock's reading
    posted,        \* history: id -> content of the last POST /documents/ answered 200,
                   \* forgotten when a DELETE for the id is handled
    ingest,        \* what the last startup did (check_and_ingest_wikipedia)
    wiki_content,  \* check_and_ingest_wikipedia's local: the scraped text
    chunks         \* check_and_ingest_wikipedia's local: None before the chunker
                   \* has run, then the chunks it emitted

vars == <<collection, request, response, calls, env, posted, ingest, wiki_content, chunks>>

-----------------------------------------------------------------------------
(* Python's str methods, on TLA+ strings.                                  *)

\* str.lower() on one character (ASCII letters; every other character is kept).
LowerChar(c) ==
    CASE c = "A" -> "a" [] c = "B" -> "b" [] c = "C" -> "c" [] c = "D" -> "d"
      [] c = "E" -> "e" [] c = "F" -> "f" [] c = "G" -> "g" [] c = "H" -> "h"
      [] c = "I" -> "i" [] c = "J" -> "j" [] c = "K" -> "k" [] c = "L" -> "l"
      [] c = "M" -> "m" [] c = "N" -> "n" [] c = "O" -> "o" [] c = "P" -> "p"
      [] c = "Q" -> "q" [] c = "R" -> "r" [] c = "S" -> "s" [] c = "T" -> "t"
      [] c = "U" -> "u" [] c = "V" -> "v" [] c = "W" -> "w" [] c = "X" -> "x"
      [] c = "Y" -> "y" [] c = "Z" -> "z" [] OTHER -> c

\* str.upper() on one character.
UpperChar(c) ==
    CASE c = "a" -> "A" [] c = "b" -> "B" [] c = "c" -> "C" [] c = "d" -> "D"
      [] c = "e" -> "E" [] c = "f" -> "F" [] c = "g" -> "G" [] c = "h" -> "H"
      [] c = "i" -> "I" [] c = "j" -> "J" [] c = "k" -> "K" [] c = "l" -> "L"
      [] c = "m" -> "M" [] c = "n" -> "N" [] c = "o" -> "O" [] c = "p" -> "P"
      [] c = "q" -> "Q" [] c = "r" -> "R" [] c = "s" -> "S" [] c = "t" -> "T"
      [] c = "u" -> "U" [] c = "v" -> "V" [] c = "w" -> "W" [] c = "x" -> "X"
      [] c = "y" -> "Y" [] c = "z" -> "Z" [] OTHER -> c

CharAt(s, i) == SubSeq(s, i, i)

RECURSIVE Lower(_)
Lower(s) == IF s = "" THEN "" ELSE LowerChar(CharAt(s, 1)) \o Lower(SubSeq(s, 2, Len(s)))

RECURSIVE Upper(_)
Upper(s) == IF s = "" THEN "" ELSE UpperChar(CharAt(s, 1)) \o Upper(SubSeq(s, 2, Len(s)))

IsSpace(c) == c \in {" ", "\t", "\n", "\r"}

RECURSIVE LStrip(_)
LStrip(s) ==
    IF s # "" /\ IsSpace(CharAt(s, 1)) THEN LStrip(SubSeq(s, 2, Len(s))) ELSE s

RECURSIVE RStrip(_)
RStrip(s) ==
    IF s # "" /\ IsSpace(CharAt(s, Len(s))) THEN RStrip(SubSeq(s, 1, Len(s) - 1)) ELSE s

\* str.strip()
Strip(s) == RStrip(LStrip(s))

\* s.startswith(p), s.endswith(p), p in s
StartsWith(s, p) == Len(s) >= Len(p) /\ SubSeq(s, 1, Len(p)) = p
EndsWith(s, p) == Len(s) >= Len(p) /\ SubSeq(s, Len(s) - Len(p) + 1, Len(s)) = p
Contains(s, p) == \E i \in 1..(Len(s) - Len(p) + 1) : SubSeq(s, i, i + Len(p) - 1) = p

-----------------------------------------------------------------------------
(* Optional[T]: None is the empty sequence, a value v is <<v>>.            *)
None == <<>>
Some(v) == <<v>>

(* An outcome of an external call: it raises, or it returns `value`.       *)
Raises == [raises |-> TRUE]
Returns(v) == [raises |-> FALSE, value |-> v]

-----------------------------------------------------------------------------
(* The pattern lists.  The three functions each carry their own copies.    *)

\* check_query_relevance
relevance_greeting_patterns ==
    {"hi", "hello", "hey", "good morning", "good afternoon", "good evening",
     "how are you", "what's up", "greetings", "nice to meet you",
     "thanks", "thank you", "bye", "goodbye", "see you", "ok", "okay"}

contextual_patterns ==
    {"so how old", "how old", "what age", "his age", "age now", "current age",
     "so what", "and what", "tell me more", "more info", "more details",
     "when was that", "what year", "which year", "how many", "how much"}

\* summarize_search_results
summary_greeting_patterns ==
    {"hi", "hello", "hey", "good morning", "good afternoon", "good evening",
     "how are you", "what's up", "greetings", "nice to meet you"}

farewell_patterns == {"thanks", "thank you", "bye", "goodbye", "see you"}

acknowledgment_patterns == {"ok", "okay", "alright", "got it"}

summary_age_patterns ==
    {"so how old", "how old", "what age", "his age", "age now", "current age"}

\* search_documents
search_greeting_patterns ==
    {"hi", "hello", "hey", "good morning", "good afternoon", "good evening",
     "how are you", "what's up", "greetings", "nice to meet you",
     "thanks", "thank you", "bye", "goodbye", "see you", "ok", "okay",
     "alright", "got it"}

search_age_patterns ==
    {"so how old", "how old", "what age", "his age", "age now", "current age"}

\* query.lower().strip()
Normalize(query) == Strip(Lower(query))

\* query_lower in patterns or any(query_lower.startswith(p + " ") or
\* query_lower.endswith(" " + p) or query_lower == p for p in patterns)
MatchesPhrase(query_lower, patterns) ==
    \/ query_lower \in patterns
    \/ \E p \in patterns :
          \/ StartsWith(query_lower, p \o " ")
          \/ EndsWith(query_lower, " " \o p)
          \/ query_lower = p

\* any(pattern in query_lower for pattern in patterns)
ContainsAny(query_lower, patterns) == \E p \in patterns : Contains(query_lower, p)

\* The queries the requests are drawn from.
Queries ==
    {"hi", "Hello there", "  OK ", "alright", "well Got it", "thank you",
     "How old is he?", "hi how old", "what age thanks", "ok his age",
     "tell me more", "show older films", "web framework Python",
     "What is the weather today?"}

\* Every pattern test the three functions make of a query, evaluated once per
\* query of Queries and looked up from here by the functions below.
QueryTests ==
    [query \in Queries |->
        LET query_lower == Normalize(query) IN
        [relevance_greeting |-> MatchesPhrase(query_lower, relevance_greeting_patterns),
         contextual         |-> ContainsAny(query_lower, contextual_patterns),
         summary_greeting   |-> MatchesPhrase(query_lower, summary_greeting_patterns),
         farewell           |-> MatchesPhrase(query_lower, farewell_patterns),
         acknowledgment     |-> MatchesPhrase(query_lower, acknowledgment_patterns),
         summary_age        |-> ContainsAny(query_lower, summary_age_patterns),
         search_greeting    |-> MatchesPhrase(query_lower, search_greeting_patterns),
         search_age         |-> ContainsAny(query_lower, search_age_patterns)]]

-----------------------------------------------------------------------------
(* check_query_relevance(query): [result, calls].  `llm` is the outcome of *)
(* the chat completion, consulted only when no pattern matches; any        *)
(* exception in the body is caught and answered True.                      *)

\* Mutant: the except branch answers False instead of True.
check_query_relevance_failclosed(query, llm) ==
    IF QueryTests[query].relevance_greeting
    THEN [result |-> TRUE, calls |-> <<>>]
    ELSE IF QueryTests[query].contextual
    THEN [result |-> TRUE, calls |-> <<>>]
    ELSE [result |-> IF llm.raises THEN FALSE
                     ELSE Upper(Strip(llm.value)) = "YES",
          calls  |-> <<"relevance_llm">>]

\* Mutant: the reply is compared without .strip().upper().
check_query_relevance_exact(query, llm) ==
    IF QueryTests[query].relevance_greeting
    THEN [result |-> TRUE, calls |-> <<>>]
    ELSE IF QueryTests[query].contextual
    THEN [result |-> TRUE, calls |-> <<>>]
    ELSE [result |-> IF llm.raises THEN TRUE ELSE llm.value = "YES",
          calls  |-> <<"relevance_llm">>]

check_query_relevance(query, llm) ==
    IF QueryTests[query].relevance_greeting
    THEN [result |-> TRUE, calls |-> <<>>]
    ELSE IF QueryTests[query].contextual
    THEN [result |-> TRUE, calls |-> <<>>]
    ELSE [result |-> IF llm.raises THEN TRUE
                     ELSE Upper(Strip(llm.value)) = "YES",
          calls  |-> <<"relevance_llm">>]

-----------------------------------------------------------------------------
(* summarize_search_results(query, documents): [text, calls].              *)

GREETING_TEXT == "Hello! I'm your AI assistant for Sai Sai Kham Leng. I can help you learn about his music, movies, career, and personal life. What would you like to know about him?"
FAREWELL_TEXT == "You're welcome! Feel free to ask me anything else about Sai Sai Kham Leng anytime. Have a great day!"
ACKNOWLEDGMENT_TEXT == "Great! Is there anything else you'd like to know about Sai Sai Kham Leng? I can tell you about his albums, movies, career highlights, or personal life."
NO_DOCUMENTS_TEXT == "I'd be happy to help you learn about Sai Sai Kham Leng! Could you ask me something specific about his music, movies, or career?"
SUMMARY_FAILED_TEXT == "I found some relevant information, but couldn't generate a summary at the moment."

\* birth_date = datetime(1979, 4, 10)
birth_date == [year |-> 1979, month |-> 4, day |-> 10]

\* age = current_date.year - birth_date.year, less one before the birthday
\* Mutant: the birthday itself still counts as "before the birthday".
AgeOn_dayinclusive(current_date) ==
    LET age == current_date.year - birth_date.year IN
    IF \/ current_date.month < birth_date.month
       \/ (current_date.month = birth_date.month /\ current_date.day <= birth_date.day)
    THEN age - 1
    ELSE age

AgeOn(current_date) ==
    LET age == current_date.year - birth_date.year IN
    IF \/ current_date.month < birth_date.month
       \/ (current_date.month = birth_date.month /\ current_date.day < birth_date.day)
    THEN age - 1
    ELSE age

AgeText(age) ==
    "Sai Sai Kham Leng is currently " \o ToString(age)
        \o " years old. He was born on April 10, 1979."

\* Mutant: the age test is made before the greeting, farewell and
\* acknowledgment tests.
summarize_search_results_agefirst(query, documents, llm, now) ==
    IF QueryTests[query].summary_age
    THEN [text |-> AgeText(AgeOn(now)), calls |-> <<"clock">>]
    ELSE IF QueryTests[query].summary_greeting
    THEN [text |-> GREETING_TEXT, calls |-> <<>>]
    ELSE IF QueryTests[query].farewell
    THEN [text |-> FAREWELL_TEXT, calls |-> <<>>]
    ELSE IF QueryTests[query].acknowledgment
    THEN [text |-> ACKNOWLEDGMENT_TEXT, calls |-> <<>>]
    ELSE IF documents = <<>> \/ documents[1] = ""
    THEN [text |-> NO_DOCUMENTS_TEXT, calls |-> <<>>]
    ELSE [text |-> IF llm.raises THEN SUMMARY_FAILED_TEXT ELSE Strip(llm.value),
          calls |-> <<"summary_llm">>]

\* Mutant: the except branch answers with the no-documents text.
summarize_search_results_wrongfallback(query, documents, llm, now) ==
    IF QueryTests[query].summary_greeting
    THEN [text |-> GREETING_TEXT, calls |-> <<>>]
    ELSE IF QueryTests[query].farewell
    THEN [text |-> FAREWELL_TEXT, calls |-> <<>>]
    ELSE IF QueryTests[query].acknowledgment
    THEN [text |-> ACKNOWLEDGMENT_TEXT, calls |-> <<>>]
    ELSE IF QueryTests[query].summary_age
    THEN [text |-> AgeText(AgeOn(now)), calls |-> <<"clock">>]
    ELSE IF documents = <<>> \/ documents[1] = ""
    THEN [text |-> NO_DOCUMENTS_TEXT, calls |-> <<>>]
    ELSE [text |-> IF llm.raises THEN NO_DOCUMENTS_TEXT ELSE Strip(llm.value),
          calls |-> <<"summary_llm">>]

summarize_search_results(query, documents, llm, now) ==
    IF QueryTests[query].summary_greeting
    THEN [text |-> GREETING_TEXT, calls |-> <<>>]
    ELSE IF QueryTests[query].farewell
    THEN [text |-> FAREWELL_TEXT, calls |-> <<>>]
    ELSE IF QueryTests[query].acknowledgment
    THEN [text |-> ACKNOWLEDGMENT_TEXT, calls |-> <<>>]
    ELSE IF QueryTests[query].summary_age
    THEN [text |-> AgeText(AgeOn(now)), calls |-> <<"clock">>]
    ELSE IF documents = <<>> \/ documents[1] = ""
    THEN [text |-> NO_DOCUMENTS_TEXT, calls |-> <<>>]
    ELSE [text |-> IF llm.raises THEN SUMMARY_FAILED_TEXT ELSE Strip(llm.value),
          calls |-> <<"summary_llm">>]

-----------------------------------------------------------------------------
(* The vector store's collection.  The store is chromadb's PersistentClient *)
(* API: get returns the stored ids among those asked for; add of an id that *)
(* is already stored is ignored without an error and leaves the stored      *)
(* record as it is; delete of an id that is not stored is no error; query   *)
(* returns the min(n_results, count) nearest records, nearest first.  Any   *)
(* call may instead raise, and then changes nothing.                        *)

collection_get(coll, id) == IF id \in DOMAIN coll THEN <<id>> ELSE <<>>

collection_add(coll, id, content, metadata) ==
    IF id \in DOMAIN coll
    THEN coll
    ELSE [i \in DOMAIN coll \cup {id} |->
             IF i = id THEN [content |-> content, metadata |-> metadata] ELSE coll[i]]

collection_delete(coll, id) == [i \in DOMAIN coll \ {id} |-> coll[i]]

Min(a, b) == IF a <= b THEN a ELSE b

\* The rankings query may return: which records are nearest is the embedding
\* model's affair, so every order of every min(n_results, count) stored ids.
Rankings(coll, n_results) ==
    {r \in [1..Min(n_results, Cardinality(DOMAIN coll)) -> DOMAIN coll] :
        \A i, j \in DOMAIN r : i # j => r[i] # r[j]}

\* results['documents'][0], ['metadatas'][0], ['distances'][0], ['ids'][0] of a
\* ranking; a distance is abstracted to the record's rank.
QueryResults(coll, ranking) ==
    [documents |-> [i \in DOMAIN ranking |-> coll[ranking[i]].content],
     metadatas |-> [i \in DOMAIN ranking |-> coll[ranking[i]].metadata],
     distances |-> [i \in DOMAIN ranking |-> i],
     ids       |-> ranking]

STORE_ERROR == "store error"

-----------------------------------------------------------------------------
(* Bounds and the inputs drawn from them.                                  *)

MaxNResults == 2

DocIds == {"test_doc_1", "search_test_doc"}

Contents == {"", "FastAPI is a modern web framework for building APIs with Python."}

Metadatas == {[category |-> "test"]}

RelevanceReplies == {"YES", " yes\n", "NO", "YES."}

SummaryReplies == {" He is a Myanmar singer and actor.\n"}

\* The dates the clock may show: before the birth; the day of birth; the eve and
\* the day of the first anniversary; and in 2026 an earlier month with a later
\* day, the eve and the day of the anniversary, a later month with an earlier day.
Date(year, month, day) == [year |-> year, month |-> month, day |-> day]
Dates ==
    {Date(1979, 3, 11), Date(1979, 4, 10), Date(1980, 4, 9), Date(1980, 4, 10),
     Date(2026, 3, 11), Date(2026, 4, 9), Date(2026, 4, 10), Date(2026, 5, 9)}

LLMOutcomes(replies) == {Raises} \cup {Returns(r) : r \in replies}

NoEnv == [relevance_llm |-> None, store |-> None, summary_llm |-> None, now |-> None]

NoIngest ==
    [ran |-> FALSE, skipped |-> FALSE, scraped |-> FALSE, failed |-> "none",
     resumed |-> FALSE, stored_with |-> None]

-----------------------------------------------------------------------------
(* The handlers.                                                           *)

Handled(req, resp, made, answered) ==
    /\ request' = req
    /\ response' = resp
    /\ calls' = made
    /\ env' = answered

\* POST /documents/
add_document(id, content, metadata) ==
    LET req == [endpoint |-> "POST /documents/", id |-> id, content |-> content,
                metadata |-> metadata] IN
    \E fails \in BOOLEAN :
        IF fails
        THEN /\ Handled(req, [status |-> 400, detail |-> STORE_ERROR],
                        <<"collection.add">>, [NoEnv EXCEPT !.store = Some([raises |-> fails])])
             /\ UNCHANGED <<collection, posted, ingest, wiki_content, chunks>>
        ELSE /\ collection' = collection_add(collection, id, content, metadata)
             /\ posted' = [i \in DOMAIN posted \cup {id} |->
                              IF i = id THEN content ELSE posted[i]]
             /\ Handled(req,
                        [status |-> 200,
                         message |-> "Document " \o id \o " added successfully"],
                        <<"collection.add">>, [NoEnv EXCEPT !.store = Some([raises |-> fails])])
             /\ UNCHANGED <<ingest, wiki_content, chunks>>

\* str(e) of the HTTPException raised inside the try block: starlette formats it
\* as "<status>: <detail>"; releases before that gave the empty string.
HTTPExceptionStrs(status, detail) == {ToString(status) \o ": " \o detail, ""}

\* GET /documents/{document_id}
get_document(document_id) ==
    LET req == [endpoint |-> "GET /documents/", id |-> document_id] IN
    \E fails \in BOOLEAN :
        LET result == collection_get(collection, document_id) IN
        /\ IF fails
           THEN Handled(req, [status |-> 400, detail |-> STORE_ERROR],
                        <<"collection.get">>, [NoEnv EXCEPT !.store = Some([raises |-> fails])])
           ELSE IF result = <<>>
           \* raise HTTPException(404) is inside the try: except Exception catches
           \* it and raises HTTPException(400, detail=str(e)) in its place
           THEN \E text \in HTTPExceptionStrs(404, "Document not found") :
                    Handled(req, [status |-> 400, detail |-> text],
                            <<"collection.get">>, [NoEnv EXCEPT !.store = Some([raises |-> fails])])
           ELSE Handled(req,
                        [status |-> 200,
                         id |-> result[1],
                         content |-> collection[result[1]].content,
                         metadata |-> collection[result[1]].metadata],
                        <<"collection.get">>, [NoEnv EXCEPT !.store = Some([raises |-> fails])])
        /\ UNCHANGED <<collection, posted, ingest, wiki_content, chunks>>

\* DELETE /documents/{document_id}
delete_document(document_id) ==
    LET req == [endpoint |-> "DELETE /documents/", id |-> document_id] IN
    \E fails \in BOOLEAN :
        /\ IF fails
           THEN /\ Handled(req, [status |-> 400, detail |-> STORE_ERROR],
                           <<"collection.delete">>, [NoEnv EXCEPT !.store = Some([raises |-> fails])])
                /\ UNCHANGED collection
           ELSE /\ collection' = collection_delete(collection, document_id)
                /\ Handled(req,
                           [status |-> 200,
                            message |-> "Document " \o document_id \o " deleted successfully"],
                           <<"collection.delete">>, [NoEnv EXCEPT !.store = Some([raises |-> fails])])
        /\ posted' = [i \in DOMAIN posted \ {document_id} |-> posted[i]]
        /\ UNCHANGED <<ingest, wiki_content, chunks>>

\* is_greeting or is_age_question of search_documents
\* Mutant: the router tests summarize_search_results' shorter greeting list.
IsGreeting_shortlist(query) == QueryTests[query].summary_greeting
IsGreeting(query) == QueryTests[query].search_greeting
IsAgeQuestion(query) == QueryTests[query].search_age

NOT_RELEVANT_MESSAGE == "Your question doesn't seem to be related to Sai Sai Kham Leng. Please ask about his music, movies, career, or personal life."
NOTHING_FOUND_TEXT == "I couldn't find specific information about that topic in the available content about Sai Sai Kham Leng."

QueryResponse(documents, metadatas, distances, ids, summary, is_relevant, message) ==
    [status |-> 200, documents |-> documents, metadatas |-> metadatas,
     distances |-> distances, ids |-> ids, summary |-> summary,
     is_relevant |-> is_relevant, message |-> message]

\* What the environment is asked during a handling: an external call that is not
\* made has no outcome (None); one that is made has one of `outcomes`.
Asked(made, outcomes) == IF made THEN {Some(o) : o \in outcomes} ELSE {None}
Answer(asked, unused) == IF asked = None THEN unused ELSE asked[1]
NoDate == [year |-> 0, month |-> 0, day |-> 0]
Made(call, made) == \E i \in DOMAIN made : made[i] = call

\* Whether a call of the function reaches the external call at all (this does not
\* depend on what the external call would answer).
RelevanceAsksLLM(query) == Made("relevance_llm", check_query_relevance(query, Raises).calls)
SummaryAsksLLM(query, documents) ==
    Made("summary_llm", summarize_search_results(query, documents, Raises, NoDate).calls)
SummaryAsksClock(query, documents) ==
    Made("clock", summarize_search_results(query, documents, Raises, NoDate).calls)

\* POST /search/
search_documents(query, n_results) ==
    LET req == [endpoint |-> "POST /search/", query |-> query, n_results |-> n_results]
        \* summary = await summarize_search_results(query.query, documents), then
        \* the QueryResponse that carries it
        Summarized(results, made, answered) ==
            \E sum_llm \in Asked(SummaryAsksLLM(query, results.documents),
                                 LLMOutcomes(SummaryReplies)),
               now \in Asked(SummaryAsksClock(query, results.documents), Dates) :
                LET s == summarize_search_results(query, results.documents,
                             Answer(sum_llm, Raises), Answer(now, NoDate))
                IN Handled(req,
                           QueryResponse(results.documents, results.metadatas,
                                         results.distances, results.ids,
                                         Some(s.text), TRUE, None),
                           made \o <<"summarize_search_results">> \o s.calls,
                           [answered EXCEPT !.summary_llm = sum_llm, !.now = now])
    IN
    /\ UNCHANGED <<collection, posted, ingest, wiki_content, chunks>>
    /\ \E rel_llm \in Asked(RelevanceAsksLLM(query), LLMOutcomes(RelevanceReplies)) :
        LET rel == check_query_relevance(query, Answer(rel_llm, Raises))
            calls1 == <<"check_query_relevance">> \o rel.calls
            env1 == [NoEnv EXCEPT !.relevance_llm = rel_llm]
        IN
        IF ~rel.result
        THEN Handled(req,
                     QueryResponse(<<>>, <<>>, <<>>, <<>>, None, FALSE,
                                   Some(NOT_RELEVANT_MESSAGE)),
                     calls1, env1)
        ELSE IF IsGreeting(query) \/ IsAgeQuestion(query)
        THEN Summarized([documents |-> <<>>, metadatas |-> <<>>,
                         distances |-> <<>>, ids |-> <<>>], calls1, env1)
        ELSE \E store \in {Raises} \cup {Returns(r) : r \in Rankings(collection, n_results)} :
                LET calls2 == calls1 \o <<"collection.query">>
                    env2 == [env1 EXCEPT !.store = Some(store)]
                IN
                IF store.raises
                THEN Handled(req, [status |-> 400, detail |-> STORE_ERROR], calls2, env2)
                ELSE LET results == QueryResults(collection, store.value) IN
                     IF results.documents = <<>>
                     THEN Handled(req,
                                  QueryResponse(<<>>, <<>>, <<>>, <<>>,
                                                Some(NOTHING_FOUND_TEXT), TRUE,
                                                Some("No matching content found.")),
                                  calls2, env2)
                     ELSE Summarized(results, calls2, env2)

-----------------------------------------------------------------------------
Init ==
    /\ collection = <<>>
    /\ request = [endpoint |-> "none"]
    /\ response = [status |-> 0]
    /\ calls = <<>>
    /\ env = NoEnv
    /\ posted = <<>>
    /\ ingest = NoIngest
    /\ wiki_content = <<>>
    /\ chunks = None

Next ==
    \/ \E id \in DocIds, content \in Contents, metadata \in Metadatas :
          add_document(id, content, metadata)
    \/ \E id \in DocIds : get_document(id)
    \/ \E id \in DocIds : delete_document(id)
    \/ \E query \in Queries, n_results \in 1..MaxNResults :
          search_documents(query, n_results)

Spec == Init /\ [][Next]_vars

-----------------------------------------------------------------------------
(* summarize_search_results on its own: every query with every list of     *)
(* documents, not only the pairs search_documents passes.                  *)

DocumentLists == UNION {[1..n -> Contents] : n \in 0..MaxNResults}

summarize_call(query, documents) ==
    /\ UNCHANGED <<collection, posted, ingest, wiki_content, chunks>>
    /\ \E sum_llm \in Asked(SummaryAsksLLM(query, documents), LLMOutcomes(SummaryReplies)),
          now \in Asked(SummaryAsksClock(query, documents), Dates) :
          LET s == summarize_search_results(query, documents,
                       Answer(sum_llm, Raises), Answer(now, NoDate))
          IN Handled([endpoint |-> "summarize_search_results", query |-> query,
                      documents |-> documents],
                     [text |-> s.text],
                     <<"summarize_search_results">> \o s.calls,
                     [NoEnv EXCEPT !.summary_llm = sum_llm, !.now = now])

NextSummarize == \E query \in Queries, documents \in DocumentLists :
                     summarize_call(query, documents)

SpecSummarize == Init /\ [][NextSummarize]_vars

-----------------------------------------------------------------------------
(* Text in the ingestion.  A scraped text is kept run by run: a sequence of *)
(* runs, each either the paragraph separator "\n\n" or a block of `chars`   *)
(* characters of one paragraph (which holds no whitespace at its ends and   *)
(* no newline: scrape_wikipedia_page strips it and collapses \s+ to " ").   *)

Sep == [sep |-> TRUE, chars |-> 2]
Block(n) == [sep |-> FALSE, chars |-> n]

\* len(text)
RECURSIVE TextLen(_)
TextLen(text) == IF text = <<>> THEN 0 ELSE Head(text).chars + TextLen(Tail(text))

\* '\n\n'.join(parts)
RECURSIVE Join(_)
Join(parts) ==
    IF parts = <<>> THEN <<>>
    ELSE IF Len(parts) = 1 THEN parts[1]
    ELSE parts[1] \o <<Sep>> \o Join(Tail(parts))

\* text.split('\n\n'): the pieces between the separators; of the empty text, one
\* empty piece.
RECURSIVE SplitFrom(_, _)
SplitFrom(text, pieces) ==
    IF text = <<>> THEN pieces
    ELSE IF Head(text).sep
    THEN SplitFrom(Tail(text), Append(pieces, <<>>))
    ELSE SplitFrom(Tail(text),
                   [pieces EXCEPT ![Len(pieces)] = Append(@, Head(text))])
Split(text) == SplitFrom(text, << <<>> >>)

\* text.strip(): the separator is whitespace, a block has none at its ends.
RECURSIVE StripText(_)
StripText(text) ==
    IF text # <<>> /\ Head(text).sep THEN StripText(Tail(text))
    ELSE IF text # <<>> /\ text[Len(text)].sep THEN StripText(SubSeq(text, 1, Len(text) - 1))
    ELSE text

chunk_size == 1000

\* The loop over the paragraphs: [current_chunk, chunks] after it.
RECURSIVE ChunkLoop(_, _, _)
ChunkLoop(paragraphs, current_chunk, emitted) ==
    IF paragraphs = <<>> THEN [current_chunk |-> current_chunk, chunks |-> emitted]
    ELSE LET paragraph == Head(paragraphs) IN
         IF TextLen(current_chunk) + TextLen(paragraph) > chunk_size /\ current_chunk # <<>>
         THEN ChunkLoop(Tail(paragraphs), paragraph,
                        Append(emitted, StripText(current_chunk)))
         ELSE ChunkLoop(Tail(paragraphs),
                        IF current_chunk # <<>>
                        THEN current_chunk \o <<Sep>> \o paragraph
                        ELSE paragraph,
                        emitted)

\* The chunker of check_and_ingest_wikipedia: the chunks of a scraped text.
Chunker(text) ==
    LET after == ChunkLoop(Split(text), <<>>, <<>>) IN
    IF after.current_chunk # <<>>
    THEN Append(after.chunks, StripText(after.current_chunk))
    ELSE after.chunks

\* The texts a scrape may return: up to MaxParagraphs paragraphs (each longer than
\* 20 characters, as the scraper keeps them), joined by the separator.
MaxParagraphs == 3
ParagraphLengths == {21, 500, 979, 1001}
ContentParts ==
    UNION {[1..n -> {<<Block(c)>> : c \in ParagraphLengths}] : n \in 0..MaxParagraphs}
ScrapedContents == {Join(parts) : parts \in ContentParts}

\* The chunker applied to a scraped text.
RunChunker ==
    /\ chunks = None
    /\ chunks' = Some(Chunker(wiki_content))
    /\ UNCHANGED <<collection, request, response, calls, env, posted, ingest, wiki_content>>

InitChunk ==
    /\ collection = <<>>
    /\ request = [endpoint |-> "none"]
    /\ response = [status |-> 0]
    /\ calls = <<>>
    /\ env = NoEnv
    /\ posted = <<>>
    /\ ingest = NoIngest
    /\ wiki_content \in ScrapedContents
    /\ chunks = None

NextChunk == RunChunker

SpecChunk == InitChunk /\ [][NextChunk]_vars

-----------------------------------------------------------------------------
(* check_and_ingest_wikipedia, run by startup_event.                       *)

wikipedia_url == "https://en.wikipedia.org/wiki/Sai_Sai_Kham_Leng"
document_id == "sai_sai_kham_leng_wiki"

\* f"{document_id}_chunk_{i}"
ChunkId(i) == document_id \o "_chunk_" \o ToString(i)

\* The metadata scrape_wikipedia_page returns (the page's title and infobox are
\* taken as they are today).
WikiMetadata ==
    [source |-> "wikipedia", url |-> wikipedia_url, title |-> "Sai Sai Kham Leng",
     has_infobox |-> TRUE]

\* Mutant: the full document is added before its chunks.
IngestAdds_fullfirst(emitted, text) ==
    <<[id |-> document_id, content |-> text, metadata |-> WikiMetadata]>>
    \o [i \in 1..Len(emitted) |->
        [id |-> ChunkId(i - 1),
         content |-> emitted[i],
         metadata |-> [source |-> WikiMetadata.source, url |-> WikiMetadata.url,
                       title |-> WikiMetadata.title,
                       has_infobox |-> WikiMetadata.has_infobox,
                       chunk_index |-> i - 1,
                       total_chunks |-> Len(emitted),
                       chunk_id |-> ChunkId(i - 1)]]]

\* The collection.add calls of an ingestion, in the order they are made: the
\* chunks (enumerate counts from 0), then the full document.
IngestAdds(emitted, text) ==
    [i \in 1..Len(emitted) |->
        [id |-> ChunkId(i - 1),
         content |-> emitted[i],
         metadata |-> [source |-> WikiMetadata.source, url |-> WikiMetadata.url,
                       title |-> WikiMetadata.title,
                       has_infobox |-> WikiMetadata.has_infobox,
                       chunk_index |-> i - 1,
                       total_chunks |-> Len(emitted),
                       chunk_id |-> ChunkId(i - 1)]]]
    \o <<[id |-> document_id, content |-> text, metadata |-> WikiMetadata]>>

RECURSIVE ApplyAdds(_, _)
ApplyAdds(coll, adds) ==
    IF adds = <<>> THEN coll
    ELSE ApplyAdds(collection_add(coll, Head(adds).id, Head(adds).content,
                                  Head(adds).metadata),
                   Tail(adds))

\* The page as the scraper may find it at a startup: it may have been edited since
\* the startup before.  No substantial paragraph at all; one paragraph; three
\* paragraphs that make two chunks; three that make three.
Paragraphs(lengths) == Join([i \in DOMAIN lengths |-> <<Block(lengths[i])>>])
PageVersions ==
    {Paragraphs(<<>>), Paragraphs(<<500>>), Paragraphs(<<500, 500, 1001>>),
     Paragraphs(<<1001, 21, 1001>>)}

\* Whether some chunk of an earlier, unfinished ingestion is stored.
PartlyIngested(coll) == document_id \notin DOMAIN coll /\ ChunkId(0) \in DOMAIN coll

\* startup_event: check_and_ingest_wikipedia, whose exception it logs and drops.
\* The lookup, the scrape or any one of the adds may raise; what was added before
\* stays.
startup_event ==
    LET Log(skipped, scraped, failed, stored_with) ==
            [ran |-> TRUE, skipped |-> skipped, scraped |-> scraped, failed |-> failed,
             resumed |-> PartlyIngested(collection), stored_with |-> stored_with]
    IN
    /\ UNCHANGED <<request, response, calls, env, posted>>
    /\ \E get_fails \in BOOLEAN :
        IF get_fails
        THEN /\ ingest' = Log(FALSE, FALSE, "get", ingest.stored_with)
             /\ wiki_content' = <<>> /\ chunks' = None
             /\ UNCHANGED collection
        ELSE IF collection_get(collection, document_id) # <<>>
        THEN /\ ingest' = Log(TRUE, FALSE, "none", ingest.stored_with)
             /\ wiki_content' = <<>> /\ chunks' = None
             /\ UNCHANGED collection
        ELSE \E scrape \in {Raises} \cup {Returns(c) : c \in PageVersions} :
            IF scrape.raises
            THEN /\ ingest' = Log(FALSE, TRUE, "scrape", ingest.stored_with)
                 /\ wiki_content' = <<>> /\ chunks' = None
                 /\ UNCHANGED collection
            ELSE LET emitted == Chunker(scrape.value)
                     adds == IngestAdds(emitted, scrape.value)
                 IN \E made \in 0..Len(adds) :
                     LET after == ApplyAdds(collection, SubSeq(adds, 1, made)) IN
                     /\ collection' = after
                     /\ wiki_content' = scrape.value
                     /\ chunks' = Some(emitted)
                     /\ ingest' = Log(FALSE, TRUE,
                                      IF made = Len(adds) THEN "none" ELSE "add",
                                      IF document_id \in DOMAIN after
                                      THEN Some(Len(emitted))
                                      ELSE ingest.stored_with)

NextIngest == startup_event

SpecIngest == Init /\ [][NextIngest]_vars

-----------------------------------------------------------------------------
(* What the claims speak of, read off the last handling.                   *)

IsSearch == request.endpoint = "POST /search/"
IsGet == request.endpoint = "GET /documents/"

\* The router's shortcut matchers, evaluated on the query's text itself.
InGreetingList(query) == MatchesPhrase(Strip(Lower(query)), search_greeting_patterns)
HasAgePattern(query) == ContainsAny(Strip(Lower(query)), search_age_patterns)
MatchesShortcut(query) == InGreetingList(query) \/ HasAgePattern(query)

\* The positions of a call in `calls`.
Positions(call) == {i \in DOMAIN calls : calls[i] = call}
Before(a, b) == \A i \in Positions(a), j \in Positions(b) : i < j

\* The response a query judged not relevant gets.
NotRelevantResponse ==
    /\ response.status = 200
    /\ response.is_relevant = FALSE
    /\ response.summary = None
    /\ response.documents = <<>>

RelevanceLLMRaised == env.relevance_llm # None /\ env.relevance_llm[1].raises
RelevanceLLMSaid(yes) ==
    /\ env.relevance_llm # None
    /\ ~env.relevance_llm[1].raises
    /\ (Upper(Strip(env.relevance_llm[1].value)) = "YES") = yes
StoreRaised == env.store # None /\ env.store[1].raises

\* C1: a handling of POST /search/ starts with the relevance check, queries the
\* vector store at most once and only for a query judged relevant that matches
\* neither the greeting list nor an age pattern, calls the summarization LLM only
\* after a vector query that returned a document, and after a judgement of "not
\* relevant" makes neither the vector query nor a call of summarize_search_results.
C1_SearchOrder ==
    IsSearch =>
        /\ calls[1] = "check_query_relevance"
        /\ Positions("check_query_relevance") = {1}
        /\ Cardinality(Positions("collection.query")) <= 1
        /\ Before("relevance_llm", "collection.query")
        /\ Before("collection.query", "summary_llm")
        /\ Made("collection.query", calls) =>
              /\ ~RelevanceLLMSaid(FALSE)
              /\ ~MatchesShortcut(request.query)
        /\ Made("summary_llm", calls) =>
              /\ Made("collection.query", calls)
              /\ ~StoreRaised
              /\ Len(env.store[1].value) >= 1
        /\ RelevanceLLMSaid(FALSE) =>
              /\ ~Made("collection.query", calls)
              /\ ~Made("summarize_search_results", calls)
              /\ NotRelevantResponse

\* C1's case: relevance LLM, then vector query, then summarization LLM.
C1_Witness ==
    /\ IsSearch
    /\ calls = <<"check_query_relevance", "relevance_llm", "collection.query",
                 "summarize_search_results", "summary_llm">>

\* C2: a query that matches a router shortcut (the greeting list with "alright"
\* and "got it", or an age pattern) is answered without any LLM call and without
\* a vector query, with is_relevant = true, a summary and empty result lists; the
\* relevance LLM is consulted only when no shortcut matches.
C2_ShortcutsBypassLLM ==
    IsSearch =>
        /\ MatchesShortcut(request.query) =>
              /\ ~Made("relevance_llm", calls)
              /\ ~Made("summary_llm", calls)
              /\ ~Made("collection.query", calls)
              /\ response.status = 200
              /\ response.is_relevant = TRUE
              /\ response.summary # None
              /\ response.documents = <<>> /\ response.metadatas = <<>>
              /\ response.distances = <<>> /\ response.ids = <<>>
        /\ Made("relevance_llm", calls) => ~MatchesShortcut(request.query)

\* C3: when the relevance LLM call raises, the query is treated as relevant and
\* the handling goes on (to retrieval, for a query without a router shortcut);
\* when it returns, the query is treated as relevant exactly when the trimmed,
\* upper-cased reply is "YES".
C3_RelevanceFallback ==
    IsSearch =>
        /\ RelevanceLLMRaised =>
              /\ ~NotRelevantResponse
              /\ response.status = 200 => response.is_relevant = TRUE
              /\ ~MatchesShortcut(request.query) => Made("collection.query", calls)
              /\ Made("collection.query", calls) \/ Made("summarize_search_results", calls)
        /\ RelevanceLLMSaid(TRUE) =>
              /\ ~NotRelevantResponse
              /\ Made("collection.query", calls) \/ Made("summarize_search_results", calls)
        /\ RelevanceLLMSaid(FALSE) => NotRelevantResponse

\* C3's case: the relevance LLM call raised and the search went on to return
\* documents.
C3_Witness ==
    /\ IsSearch
    /\ RelevanceLLMRaised
    /\ Made("collection.query", calls)
    /\ response.status = 200
    /\ response.documents # <<>>

\* C4: once POST /documents/ with an id and a content has been answered 200, GET
\* of that id (when the store's lookup does not raise) answers 200 with that id
\* and that content, until a DELETE for the id.
C4_AddGetRoundTrip ==
    (IsGet /\ request.id \in DOMAIN posted /\ ~StoreRaised) =>
        /\ response.status = 200
        /\ response.id = request.id
        /\ response.content = posted[request.id]

C6_GetMissingIs404 ==
    IsGet =>
        /\ (request.id \notin DOMAIN collection /\ ~StoreRaised) =>
              /\ response.status = 404
              /\ response.detail = "Document not found"
        /\ response.status = 400 => StoreRaised

\* Calendar order of two dates, and the number of complete years from the birth
\* date to a date on or after it: the number of anniversaries that have come.
OnOrBefore(a, b) ==
    \/ a.year < b.year
    \/ (a.year = b.year /\ a.month < b.month)
    \/ (a.year = b.year /\ a.month = b.month /\ a.day <= b.day)
Anniversary(k) == [year |-> 1979 + k, month |-> 4, day |-> 10]
CompleteYears(date) ==
    Cardinality({k \in 1..(date.year - 1979) : OnOrBefore(Anniversary(k), date)})

IsAgeQuery(query) ==
    /\ ContainsAny(Strip(Lower(query)), summary_age_patterns)
    /\ ~MatchesPhrase(Strip(Lower(query)),
            summary_greeting_patterns \cup farewell_patterns \cup acknowledgment_patterns)

\* C7: an age question (an age pattern, no greeting, farewell or acknowledgment
\* matcher) is answered 200 without any LLM call or vector query; asked on a date
\* on or after 10 April 1979, the summary states the number of complete years
\* from that day to the date asked.
C7_AgeIsCompleteYears ==
    (IsSearch /\ IsAgeQuery(request.query)) =>
        /\ ~Made("relevance_llm", calls)
        /\ ~Made("summary_llm", calls)
        /\ ~Made("collection.query", calls)
        /\ response.status = 200
        /\ response.is_relevant = TRUE
        /\ env.now # None
        /\ OnOrBefore(Anniversary(0), env.now[1]) =>
              response.summary = Some(AgeText(CompleteYears(env.now[1])))

\* C7's case: asked on 9 April 2026, the day before the 47th anniversary, the
\* answer is 46.
C7_Witness ==
    /\ IsSearch
    /\ IsAgeQuery(request.query)
    /\ env.now = Some([year |-> 2026, month |-> 4, day |-> 9])
    /\ response.summary =
          Some("Sai Sai Kham Leng is currently 46 years old. He was born on April 10, 1979.")

\* A chunk that is one single paragraph.
IsOneParagraph(chunk) == Len(chunk) = 1 /\ ~chunk[1].sep

\* C8: every chunk the chunker emits is at most chunk_size = 1000 characters
\* long, unless it is one single paragraph that is itself longer.
C8_ChunksBounded ==
    chunks # None =>
        \A i \in DOMAIN chunks[1] :
            \/ TextLen(chunks[1][i]) <= 1000
            \/ (IsOneParagraph(chunks[1][i]) /\ TextLen(chunks[1][i]) > 1000)

\* The rules of summarize_search_results in their order, each tested on the
\* query's text and the documents themselves; FirstRule is the first that applies
\* (6, the LLM, when none of the five does).
RuleApplies(rule, query, documents) ==
    LET query_lower == Strip(Lower(query)) IN
    CASE rule = 1 -> MatchesPhrase(query_lower, summary_greeting_patterns)
      [] rule = 2 -> MatchesPhrase(query_lower, farewell_patterns)
      [] rule = 3 -> MatchesPhrase(query_lower, acknowledgment_patterns)
      [] rule = 4 -> ContainsAny(query_lower, summary_age_patterns)
      [] rule = 5 -> documents = <<>> \/ documents[1] = ""
      [] OTHER -> TRUE
FirstRule(query, documents) ==
    CHOOSE rule \in 1..6 :
        /\ RuleApplies(rule, query, documents)
        /\ \A earlier \in 1..(rule - 1) : ~RuleApplies(earlier, query, documents)

IsSummarizeCall == request.endpoint = "summarize_search_results"

\* C9: summarize_search_results returns the response of the first rule that
\* applies in the order greeting, farewell, acknowledgment, age, no documents,
\* LLM, and calls the LLM only when none of the first five applies.
C9_FirstRuleWins ==
    IsSummarizeCall =>
        LET rule == FirstRule(request.query, request.documents) IN
        /\ rule = 1 => response.text = GREETING_TEXT
        /\ rule = 2 => response.text = FAREWELL_TEXT
        /\ rule = 3 => response.text = ACKNOWLEDGMENT_TEXT
        /\ rule = 4 => /\ env.now # None
                       /\ response.text = AgeText(AgeOn(env.now[1]))
        /\ rule = 5 => response.text = NO_DOCUMENTS_TEXT
        /\ rule = 6 => /\ env.summary_llm # None
                       /\ response.text = IF env.summary_llm[1].raises
                                          THEN SUMMARY_FAILED_TEXT
                                          ELSE Strip(env.summary_llm[1].value)
        /\ Made("summary_llm", calls) = (rule = 6)

\* C9's case: a query that matches a greeting matcher and an age pattern, with
\* documents at hand, gets the greeting.
C9_Witness ==
    /\ IsSummarizeCall
    /\ RuleApplies(1, request.query, request.documents)
    /\ RuleApplies(4, request.query, request.documents)
    /\ ~RuleApplies(5, request.query, request.documents)
    /\ response.text = GREETING_TEXT

FullStored == document_id \in DOMAIN collection

\* C10 (a): whenever the full document is stored, so is every chunk id
\* _chunk_0 .. _chunk_{total_chunks-1} of the ingestion that stored it.
C10_ChunksBeforeFull ==
    FullStored =>
        /\ ingest.stored_with # None
        /\ \A i \in 0..(ingest.stored_with[1] - 1) : ChunkId(i) \in DOMAIN collection

\* C10 (b): once the full document is stored, a startup scrapes nothing and
\* leaves the collection as it is.
C10_StartupSkips ==
    FullStored => (collection' = collection /\ ~ingest'.scraped)

\* C10 (c): a startup that finds a partly completed ingestion, and in which
\* neither the store nor the scraper raises, ends with the full document stored.
C10_StartupResumes ==
    (PartlyIngested(collection) /\ ingest'.failed = "none") => FullStored'

\* C10: ingestion is idempotent and restartable: (a), (b) and (c) over every
\* sequence of startups, each of which may fail at any step.
C10_IngestRestartable ==
    /\ []C10_ChunksBeforeFull
    /\ [][C10_StartupSkips /\ C10_StartupResumes]_vars

\* C10's case: a startup found the chunks of an earlier, failed ingestion of
\* another version of the page, and completed the ingestion.
C10_Witness ==
    /\ ingest.resumed
    /\ ingest.scraped
    /\ ingest.failed = "none"
    /\ FullStored
    /\ chunks # None
    /\ chunks[1] # <<>>
    /\ collection[ChunkId(0)].content # chunks[1][1]

SummaryLLMRaised == env.summary_llm # None /\ env.summary_llm[1].raises

\* C11: when the vector query returned at least one document and the
\* summarization LLM call raises, POST /search/ still answers 200 with
\* is_relevant = true, the documents, metadatas, distances and ids the store
\* returned, in its order, and the fixed fallback summary.
C11_SummaryFailureKeepsResults ==
    (IsSearch /\ SummaryLLMRaised) =>
        /\ env.store # None
        /\ ~env.store[1].raises
        /\ LET ranking == env.store[1].value IN
           /\ Len(ranking) >= 1
           /\ response.status = 200
           /\ response.is_relevant = TRUE
           /\ response.ids = ranking
           /\ response.documents = [i \in DOMAIN ranking |-> collection[ranking[i]].content]
           /\ response.metadatas = [i \in DOMAIN ranking |-> collection[ranking[i]].metadata]
           /\ Len(response.distances) = Len(ranking)
           /\ \A i, j \in DOMAIN ranking : i < j => response.distances[i] <= response.distances[j]
           /\ response.summary =
                 Some("I found some relevant information, but couldn't generate a summary at the moment.")

\* C11's case: two documents were retrieved, both LLM calls raised, and the
\* response carries the two documents with the fallback summary.
C11_Witness ==
    /\ IsSearch
    /\ SummaryLLMRaised
    /\ RelevanceLLMRaised
    /\ response.status = 200
    /\ Len(response.documents) = 2
    /\ response.summary = Some(SUMMARY_FAILED_TEXT)

\* The paragraphs of a sequence of chunks, in the chunks' order.
RECURSIVE ParagraphsOf(_)
ParagraphsOf(emitted) ==
    IF emitted = <<>> THEN <<>>
    ELSE Split(Head(emitted)) \o ParagraphsOf(Tail(emitted))

\* The chunker ran on a text of at least one paragraph.
Chunked == chunks # None /\ wiki_content # <<>>

\* An ingestion ran on such a text and none of its calls raised.
Ingested == Chunked /\ ingest.scraped /\ ingest.failed = "none"

\* C12, the chunker's part: the chunks are non-empty, their paragraphs are the
\* content's paragraphs, each once and in order, and the chunks joined by the
\* separator are the content.
C12_ChunksPartition ==
    Chunked =>
        LET emitted == chunks[1] IN
        /\ emitted # <<>>
        /\ \A i \in DOMAIN emitted : TextLen(emitted[i]) > 0
        /\ ParagraphsOf(emitted) = Split(wiki_content)
        /\ Join(emitted) = wiki_content

\* C12, the store's part: after an ingestion of n chunks, the chunk stored under
\* the i-th chunk id carries chunk_index i, that chunk id and total_chunks n.
C12_StoredChunksNumbered ==
    Ingested =>
        LET n == Len(chunks[1]) IN
        /\ \A i, j \in 0..(n - 1) : i # j => ChunkId(i) # ChunkId(j)
        /\ \A i \in 0..(n - 1) :
            /\ ChunkId(i) \in DOMAIN collection
            /\ collection[ChunkId(i)].metadata.chunk_index = i
            /\ collection[ChunkId(i)].metadata.chunk_id = ChunkId(i)
            /\ collection[ChunkId(i)].metadata.total_chunks = n

\* C12: the chunker loses and duplicates nothing: for every non-empty sequence
\* of non-empty paragraphs the chunks are non-empty, hold every paragraph once
\* and in order, join back to the content, and are stored with chunk_index
\* 0..n-1, distinct chunk ids and total_chunks = n.
C12_ChunkerLosesNothing ==
    /\ C12_ChunksPartition
    /\ C12_StoredChunksNumbered

\* C12 where the ingestion found no chunk of an earlier one in the store.
C12_NumberedOnFirstIngestion ==
    ~ingest.resumed => C12_StoredChunksNumbered

====
